---- MODULE Spec2Model ----
(***************************************************************************)
(* A model of src/src/session.rs (AxumSession): the session handle, its    *)
(* construction from a cookie jar, the tap primitive and the operations    *)
(* built on it, clear_all and count.  The shared table is                  *)
(*   RwLock<HashMap<String, Mutex<AxumSessionData>>>                       *)
(* so the state holds the map, the holders of the RwLock's read guard, the *)
(* owner of each entry's Mutex, and each request worker's position.  Steps *)
(* are cut at the .await points of the code (lock acquisitions, backend    *)
(* calls) and at the retry loop of the identifier generation.  A section   *)
(* under the RwLock's write guard excludes every other user of the table   *)
(* and is one step.                                                        *)
(***************************************************************************)
EXTENDS Integers, Sequences, FiniteSets, TLC

\* ------------------------------------------------------------- bounds
\* Size of the identifier domain Uuid::new_v4() draws from.
MaxId == 2
\* Number of handle operations called in one run, over all workers.
MaxCalls == 2
\* Number of rows the durable backend may hold at the start.
DbRows == 1

\* The request workers running concurrently against one store: two, the
\* least number with which two handles race on one entry.
Workers == {1, 2}
Uuids == 1..MaxId
NoWorker == -1
NoId == 0

\* ------------------------------------------------------- typed values
\* Option<T>: None, or the value itself (a record with its type in "kind").
None == [kind |-> "None", val |-> 0]
I32(n) == [kind |-> "i32", val |-> n]
I64(n) == [kind |-> "i64", val |-> n]
Str(s) == [kind |-> "String", val |-> s]
F64(n) == [kind |-> "f64", val |-> [nan |-> FALSE, num |-> n]]
F64NaN == [kind |-> "f64", val |-> [nan |-> TRUE, num |-> 0]]
\* A value whose Serialize implementation fails under serde_json (a map
\* whose keys are not strings).
BadMap == [kind |-> "map", val |-> 0]

\* Strings that are parsed or produced character by character are sequences
\* of one-character strings.
Digit == <<"0", "1", "2", "3", "4", "5", "6", "7", "8", "9">>
NullText == <<"n", "u", "l", "l">>

RECURSIVE NatText(_)
NatText(n) == IF n < 10 THEN <<Digit[n + 1]>>
              ELSE NatText(n \div 10) \o <<Digit[(n % 10) + 1]>>

\* A printer that loses the sign.
IntTextUnsigned(n) == NatText(IF n < 0 THEN -n ELSE n)

IntText(n) == IF n < 0 THEN <<"-">> \o NatText(-n) ELSE NatText(n)

\* serde_json::to_string: [ok, text].  Integers print in decimal, a float
\* that is not finite prints as null, a map with non-string keys is an error.
ToJson(v) ==
    CASE v.kind = "i32" -> [ok |-> TRUE, text |-> IntText(v.val)]
      [] v.kind = "i64" -> [ok |-> TRUE, text |-> IntText(v.val)]
      [] v.kind = "f64" -> [ok |-> TRUE,
                            text |-> IF v.val.nan THEN NullText ELSE IntText(v.val.num)]
      [] OTHER -> [ok |-> FALSE, text |-> <<>>]

\* A fallback that stores the JSON null instead of the empty string.
SerializedOrNull(v) == IF ToJson(v).ok THEN ToJson(v).text ELSE NullText

\* set's first line: to_string(&value).unwrap_or_else(|_| "".to_string()).
Serialized(v) == IF ToJson(v).ok THEN ToJson(v).text ELSE <<>>

DigitValue(c) == CHOOSE d \in 0..9 : Digit[d + 1] = c
IsDigit(c) == \E d \in 0..9 : Digit[d + 1] = c

RECURSIVE NatValue(_)
NatValue(s) == IF Len(s) = 0 THEN 0
               ELSE 10 * NatValue(SubSeq(s, 1, Len(s) - 1)) + DigitValue(s[Len(s)])

\* A JSON non-negative integer: digits, no leading zero.
IsNatText(s) == /\ Len(s) >= 1
                /\ \A i \in 1..Len(s) : IsDigit(s[i])
                /\ (Len(s) > 1 => s[1] # "0")
IsIntText(s) == \/ IsNatText(s)
                \/ (Len(s) >= 2 /\ s[1] = "-" /\ IsNatText(Tail(s)))
IntValue(s) == IF s[1] = "-" THEN -NatValue(Tail(s)) ELSE NatValue(s)

\* serde_json::from_str::<T>(text).ok(): None when the text is not a T.
\* An integer text is also a float.
FromJson(ty, s) ==
    CASE ty = "i32" -> IF IsIntText(s) THEN I32(IntValue(s)) ELSE None
      [] ty = "f64" -> IF IsIntText(s) THEN F64(IntValue(s)) ELSE None
      [] OTHER -> None


\* ------------------------------------------------- identifiers, cookies
\* A cookie value as the jar gives it: absent, text that is no UUID, or a
\* UUID written in one of the forms Uuid::parse_str accepts.
Cookies == {[form |-> "absent", id |-> NoId], [form |-> "garbage", id |-> NoId]}
           \cup {[form |-> f, id |-> u] : f \in {"hyphenated", "simple"}, u \in Uuids}

\* cookies.get(name).and_then(|c| Uuid::parse_str(c.value()).ok()); NoId is None.
ParseStr(c) == IF c.form \in {"hyphenated", "simple"} THEN c.id ELSE NoId

\* Uuid::to_string: always the hyphenated lower-case form, the table's key.
to_string(u) == [form |-> "hyphenated", id |-> u]
TableKeys == {to_string(u) : u \in Uuids}

\* --------------------------------------------------------- session data
Keys == {"k", "j"}
\* The values handlers store: two integers, a float that is not a number,
\* and a value serde_json cannot serialize.
Values == {I32(7), I32(-12), F64NaN, BadMap}
\* The types T handlers ask get::<T> for.
Types == {"i32", "f64"}
\* The (key, value) pairs handlers pass to set: every value under "k", one
\* under "j".
SetInputs == {<<"k", v>> : v \in Values} \cup {<<"j", I32(7)>>}

EmptyMap == [x \in {} |-> <<>>]
MapInsert(m, k, v) == [x \in (DOMAIN m) \cup {k} |-> IF x = k THEN v ELSE m[x]]
MapRemove(m, k) == [x \in (DOMAIN m) \ {k} |-> m[x]]
\* HashMap::get as an Option: the empty record None when the key is absent.
MapGet(m, k) == IF k \in DOMAIN m THEN Str(m[k]) ELSE None

EmptySession == [data |-> EmptyMap, destroy |-> FALSE, longterm |-> FALSE,
                 accepted |-> FALSE]

\* ------------------------------------------------------------ operations
NoOp == [name |-> "none", key |-> "", val |-> None, ty |-> "", flag |-> FALSE]
GetOp(k, ty) == [name |-> "get", key |-> k, val |-> None, ty |-> ty, flag |-> FALSE]
SetOp(k, v) == [name |-> "set", key |-> k, val |-> v, ty |-> "", flag |-> FALSE]
RemoveOp(k) == [name |-> "remove", key |-> k, val |-> None, ty |-> "", flag |-> FALSE]
DestroyOp == [name |-> "destroy", key |-> "", val |-> None, ty |-> "", flag |-> FALSE]
LongtermOp(b) == [name |-> "set_longterm", key |-> "", val |-> None, ty |-> "", flag |-> b]
AcceptedOp(b) == [name |-> "set_accepted", key |-> "", val |-> None, ty |-> "", flag |-> b]
ClearAllOp == [name |-> "clear_all", key |-> "", val |-> None, ty |-> "", flag |-> FALSE]
CountOp == [name |-> "count", key |-> "", val |-> None, ty |-> "", flag |-> FALSE]

\* The operations that are one tap call.
TapOps == {GetOp(k, ty) : k \in Keys, ty \in Types}
          \cup {SetOp(kv[1], kv[2]) : kv \in SetInputs}
          \cup {RemoveOp(k) : k \in Keys}
          \cup {DestroyOp}
          \cup {LongtermOp(b) : b \in BOOLEAN}
          \cup {AcceptedOp(b) : b \in BOOLEAN}

\* The closure get passes to tap: data.get(key)?, then from_str(..).ok().
GetFunc(sess, key, ty) ==
    IF key \in DOMAIN sess.data THEN FromJson(ty, sess.data[key]) ELSE None

\* A test that never finds the stored text equal.
SetDiffersAlways(sess, key, value) == TRUE

\* The test of set's closure: sess.data.get(key) != Some(&value).
SetDiffers(sess, key, value) == MapGet(sess.data, key) # Str(value)

\* An insert that appends to the stored text instead of replacing it.
SetInsertAppend(sess, key, value) ==
    [sess EXCEPT !.data = MapInsert(sess.data, key,
                                    IF key \in DOMAIN sess.data
                                    THEN sess.data[key] \o value ELSE value)]

\* The insert of set's closure.
SetInsert(sess, key, value) == [sess EXCEPT !.data = MapInsert(sess.data, key, value)]

\* Closures where set_accepted, copied from set_longterm, still assigns
\* the longterm flag.
FuncSessAcceptedSetsLongterm(o, sess) ==
    CASE o.name = "remove" -> [sess EXCEPT !.data = MapRemove(sess.data, o.key)]
      [] o.name = "destroy" -> [sess EXCEPT !.destroy = TRUE]
      [] o.name = "set_longterm" -> [sess EXCEPT !.longterm = o.flag]
      [] o.name = "set_accepted" -> [sess EXCEPT !.longterm = o.flag]
      [] OTHER -> sess

\* Closures where remove looks the key up and leaves it.
FuncSessRemoveKeeps(o, sess) ==
    CASE o.name = "destroy" -> [sess EXCEPT !.destroy = TRUE]
      [] o.name = "set_longterm" -> [sess EXCEPT !.longterm = o.flag]
      [] o.name = "set_accepted" -> [sess EXCEPT !.accepted = o.flag]
      [] OTHER -> sess

\* Closures where destroy also empties the store.
FuncSessDestroyClears(o, sess) ==
    CASE o.name = "remove" -> [sess EXCEPT !.data = MapRemove(sess.data, o.key)]
      [] o.name = "destroy" -> [sess EXCEPT !.destroy = TRUE, !.data = EmptyMap]
      [] o.name = "set_longterm" -> [sess EXCEPT !.longterm = o.flag]
      [] o.name = "set_accepted" -> [sess EXCEPT !.accepted = o.flag]
      [] OTHER -> sess

\* The closures of remove, destroy, set_longterm, set_accepted and get: the
\* session they leave.  set is not here: its closure is the two steps above.
FuncSess(o, sess) ==
    CASE o.name = "remove" -> [sess EXCEPT !.data = MapRemove(sess.data, o.key)]
      [] o.name = "destroy" -> [sess EXCEPT !.destroy = TRUE]
      [] o.name = "set_longterm" -> [sess EXCEPT !.longterm = o.flag]
      [] o.name = "set_accepted" -> [sess EXCEPT !.accepted = o.flag]
      [] OTHER -> sess

\* ... and the Option they return to tap.
FuncResult(o, sess) ==
    CASE o.name = "get" -> GetFunc(sess, o.key, o.ty)
      [] o.name = "remove" -> MapGet(sess.data, o.key)
      [] OTHER -> I32(1)


\* What an operation hands back to its caller: get hands back tap's Option,
\* count its i64, every other operation nothing (tap's result is dropped).
Unit == [kind |-> "unit", val |-> 0]
Panic == [kind |-> "panic", val |-> 0]
Pending == [kind |-> "pending", val |-> 0]
OpReturn(o, r) == IF o.name \in {"get", "count"} \/ r = Panic THEN r ELSE Unit

\* ----------------------------------------------------------------- state
VARIABLES
    table,       \* store.inner's HashMap: key string -> AxumSessionData
    mutex,       \* the owner of each entry's Mutex, NoWorker when unlocked
    readers,     \* the workers holding store.inner's read guard
    persistent,  \* store.is_persistent()
    db,          \* rows of the durable backend's table
    pc,          \* each worker's position
    cookie,      \* the cookie each worker's request carried
    hid,         \* the identifier of each worker's handle (self.id)
    token,       \* the candidate new() drew and rejected last
    op,          \* the operation each worker is inside, or called last
    ret,         \* what the tap of the worker's last call gave back (count:
                 \* its i64; clear_all: Unit or Panic); Pending before
    out,         \* what the worker's last call handed back to the handler
    nops         \* the number of operations each worker has called

vars == <<table, mutex, readers, persistent, db, pc, cookie, hid, token, op, ret, out,
          nops>>

\* A key written in the simple form (no hyphens), which no table key has.
KeyOfSimple(w) == [form |-> "simple", id |-> hid[w]]

\* self.id.0.to_string(): the key of worker w's handle.
KeyOf(w) == to_string(hid[w])
\* store_rg.get(&key) is Some / store_ug.contains_key(&key).
contains_key(k) == k \in DOMAIN table

NoCookie == [form |-> "absent", id |-> NoId]

Init ==
    /\ table = [x \in {} |-> EmptySession]
    /\ mutex = [k \in TableKeys |-> NoWorker]
    /\ readers = {}
    /\ persistent \in BOOLEAN
    /\ db = IF persistent THEN DbRows ELSE 0
    /\ pc = [w \in Workers |-> "start"]
    /\ cookie = [w \in Workers |-> NoCookie]
    /\ hid = [w \in Workers |-> NoId]
    /\ token = [w \in Workers |-> NoId]
    /\ op = [w \in Workers |-> NoOp]
    /\ ret = [w \in Workers |-> Pending]
    /\ out = [w \in Workers |-> Pending]
    /\ nops = [w \in Workers |-> 0]

\* ------------------------------------------------------- the two locks
\* RwLock::read().await: granted whenever no write section is running, and
\* write sections are single steps.
ReadLock(w) == readers' = readers \cup {w}
\* The read guard is dropped.
ReadUnlock(w) == readers' = readers \ {w}
\* RwLock::write().await is granted while nobody holds a read guard.
CanWrite == readers = {}
\* A mutex that is granted to everyone.
CanLockAlways(k) == TRUE
\* Mutex::lock().await is granted while the entry's mutex is free.
CanLock(k) == mutex[k] = NoWorker

Goto(w, p) == pc' = [pc EXCEPT ![w] = p]

\* The call o begins, and goes to position p.
Call(w, o, p) ==
    /\ op' = [op EXCEPT ![w] = o]
    /\ ret' = [ret EXCEPT ![w] = Pending]
    /\ out' = [out EXCEPT ![w] = Pending]
    /\ nops' = [nops EXCEPT ![w] = @ + 1]
    /\ Goto(w, p)

\* The call w is inside returns r to the handler.
Return(w, r) ==
    /\ ret' = [ret EXCEPT ![w] = r]
    /\ out' = [out EXCEPT ![w] = OpReturn(op[w], r)]
    /\ Goto(w, "ready")
    /\ UNCHANGED op

\* The call o begins and returns r in one step.
CallReturn(w, o, r) ==
    /\ op' = [op EXCEPT ![w] = o]
    /\ ret' = [ret EXCEPT ![w] = r]
    /\ out' = [out EXCEPT ![w] = OpReturn(o, r)]
    /\ nops' = [nops EXCEPT ![w] = @ + 1]
    /\ UNCHANGED pc

\* -------------------------------------------------------- AxumSession::new
\* A construction that trusts the cookie only when the table knows it, and
\* generates otherwise.
NewFromCookieKnown(w, c) ==
    /\ pc[w] = "start"
    /\ ParseStr(c) # NoId
    /\ cookie' = [cookie EXCEPT ![w] = c]
    /\ IF contains_key(to_string(ParseStr(c)))
       THEN /\ hid' = [hid EXCEPT ![w] = ParseStr(c)]
            /\ Goto(w, "created")
            /\ UNCHANGED readers
       ELSE /\ ReadLock(w)
            /\ Goto(w, "generate")
            /\ UNCHANGED hid
    /\ UNCHANGED <<table, mutex, persistent, db, token, op, ret, out, nops>>

\* The cookie parses: the identifier is taken as it is.
NewFromCookie(w, c) ==
    /\ pc[w] = "start"
    /\ ParseStr(c) # NoId
    /\ cookie' = [cookie EXCEPT ![w] = c]
    /\ hid' = [hid EXCEPT ![w] = ParseStr(c)]
    /\ Goto(w, "created")
    /\ UNCHANGED <<table, mutex, readers, persistent, db, token, op, ret, out, nops>>

\* No cookie, or one that does not parse: take the read guard and generate.
NewGenerate(w, c) ==
    /\ pc[w] = "start"
    /\ ParseStr(c) = NoId
    /\ cookie' = [cookie EXCEPT ![w] = c]
    /\ ReadLock(w)
    /\ Goto(w, "generate")
    /\ UNCHANGED <<table, mutex, persistent, db, hid, token, op, ret, out, nops>>

\* A generation that takes the first candidate without the check.
TokenFreeAlways(t) == TRUE

\* The test with its sense inverted: a candidate is taken when it is a key.
TokenFreeInverted(t) == contains_key(to_string(t))

\* if !store_ug.contains_key(&token.to_string()) { break token; }
TokenFree(t) == ~contains_key(to_string(t))

\* let token = Uuid::new_v4() is a key of the table: loop.
Retry(w, t) ==
    /\ pc[w] = "generate"
    /\ ~TokenFree(t)
    /\ token' = [token EXCEPT ![w] = t]
    /\ UNCHANGED <<table, mutex, readers, persistent, db, pc, cookie, hid, op, ret, out,
                   nops>>

\* The candidate is free: break token; the read guard is dropped with the
\* block and new() returns the handle.
Break(w, t) ==
    /\ pc[w] = "generate"
    /\ TokenFree(t)
    /\ hid' = [hid EXCEPT ![w] = t]
    /\ token' = [token EXCEPT ![w] = NoId]
    /\ ReadUnlock(w)
    /\ Goto(w, "created")
    /\ UNCHANGED <<table, mutex, persistent, db, cookie, op, ret, out, nops>>

\* ----------------------------------------- the table's structural writes
\* get_or_create(id), by the request plumbing before the handler runs: under
\* the write guard, an empty entry is inserted if the key has none.  The
\* plumbing is done with the request's cookie jar here.
Materialize(w) ==
    /\ pc[w] = "created"
    /\ CanWrite
    /\ table' = IF contains_key(to_string(hid[w])) THEN table
                ELSE MapInsert(table, to_string(hid[w]), EmptySession)
    /\ cookie' = [cookie EXCEPT ![w] = NoCookie]
    /\ Goto(w, "ready")
    /\ UNCHANGED <<mutex, readers, persistent, db, hid, token, op, ret, out, nops>>

\* remove(id), by the external sweep: under the write guard, an entry whose
\* destroy flag is set is deleted.
Sweep(k) ==
    /\ CanWrite
    /\ contains_key(k)
    /\ table[k].destroy
    /\ table' = MapRemove(table, k)
    /\ UNCHANGED <<mutex, readers, persistent, db, pc, cookie, hid, token, op, ret, out,
                   nops>>

\* ------------------------------------------------------- AxumSession::tap
\* A handler may call while the run has operations left.
\* The calls made so far, by the two workers together.
Calls == nops[1] + nops[2]
MayCall(w) == pc[w] = "ready" /\ Calls < MaxCalls

\* let store_rg = self.store.inner.read().await; the entry is found.
TapBegin(w, o) ==
    /\ MayCall(w)
    /\ contains_key(KeyOf(w))
    /\ ReadLock(w)
    /\ Call(w, o, "lock")
    /\ UNCHANGED <<table, mutex, persistent, db, cookie, hid, token>>

\* A tap that creates the missing entry on the way out.
TapMissingCreates(w, o) ==
    /\ MayCall(w)
    /\ ~contains_key(KeyOf(w))
    /\ table' = MapInsert(table, KeyOf(w), EmptySession)
    /\ CallReturn(w, o, None)
    /\ UNCHANGED <<mutex, readers, persistent, db, cookie, hid, token>>

\* The entry is missing: a warning, None; the read guard is taken and
\* dropped within the step.
TapMissing(w, o) ==
    /\ MayCall(w)
    /\ ~contains_key(KeyOf(w))
    /\ CallReturn(w, o, None)
    /\ UNCHANGED <<table, mutex, readers, persistent, db, cookie, hid, token>>

\* let mut instance = v.lock().await;
TapLock(w) ==
    /\ pc[w] = "lock"
    /\ CanLock(KeyOf(w))
    /\ mutex' = [mutex EXCEPT ![KeyOf(w)] = w]
    /\ Goto(w, "body")
    /\ UNCHANGED <<table, readers, persistent, db, cookie, hid, token, op, ret, out, nops>>

\* An end of tap that leaks the mutex guard.
TapEndKeepsMutex(w) ==
    /\ UNCHANGED mutex
    /\ ReadUnlock(w)

\* The end of tap: the mutex guard and the read guard are dropped.
TapEnd(w) ==
    /\ mutex' = [mutex EXCEPT ![KeyOf(w)] = NoWorker]
    /\ ReadUnlock(w)

\* func(&mut instance) for get, remove, destroy, set_longterm, set_accepted.
TapBody(w) ==
    /\ pc[w] = "body"
    /\ op[w].name # "set"
    /\ table' = [table EXCEPT ![KeyOf(w)] = FuncSess(op[w], @)]
    /\ TapEnd(w)
    /\ Return(w, FuncResult(op[w], table[KeyOf(w)]))
    /\ UNCHANGED <<persistent, db, cookie, hid, token, nops>>

\* set's closure finds the stored text equal to the new one: no insert.
SetSame(w) ==
    /\ pc[w] = "body"
    /\ op[w].name = "set"
    /\ ~SetDiffers(table[KeyOf(w)], op[w].key, Serialized(op[w].val))
    /\ TapEnd(w)
    /\ Return(w, I32(1))
    /\ UNCHANGED <<table, persistent, db, cookie, hid, token, nops>>

\* set's closure finds it different (or absent): it goes on to the insert.
SetChanged(w) ==
    /\ pc[w] = "body"
    /\ op[w].name = "set"
    /\ SetDiffers(table[KeyOf(w)], op[w].key, Serialized(op[w].val))
    /\ Goto(w, "write")
    /\ UNCHANGED <<table, mutex, readers, persistent, db, cookie, hid, token, op, ret, out,
                   nops>>

\* sess.data.insert(key.to_string(), value); Some(1).
SetWrite(w) ==
    /\ pc[w] = "write"
    /\ table' = [table EXCEPT ![KeyOf(w)] = SetInsert(@, op[w].key, Serialized(op[w].val))]
    /\ TapEnd(w)
    /\ Return(w, I32(1))
    /\ UNCHANGED <<persistent, db, cookie, hid, token, nops>>

\* ------------------------------------------------- AxumSession::clear_all
ClearBegin(w) ==
    /\ MayCall(w)
    /\ contains_key(KeyOf(w))
    /\ ReadLock(w)
    /\ Call(w, ClearAllOp, "clear_lock")
    /\ UNCHANGED <<table, mutex, persistent, db, cookie, hid, token>>

\* A clear_all that returns at once when the entry is missing.
ClearMissingReturns(w) ==
    /\ MayCall(w)
    /\ ~contains_key(KeyOf(w))
    /\ CallReturn(w, ClearAllOp, Unit)
    /\ UNCHANGED <<table, mutex, readers, persistent, db, cookie, hid, token>>

\* No entry: the if-let is skipped, the read guard stays held.
ClearMissing(w) ==
    /\ MayCall(w)
    /\ ~contains_key(KeyOf(w))
    /\ ReadLock(w)
    /\ Call(w, ClearAllOp, "clear_store")
    /\ UNCHANGED <<table, mutex, persistent, db, cookie, hid, token>>

ClearLock(w) ==
    /\ pc[w] = "clear_lock"
    /\ CanLock(KeyOf(w))
    /\ mutex' = [mutex EXCEPT ![KeyOf(w)] = w]
    /\ Goto(w, "clear_data")
    /\ UNCHANGED <<table, readers, persistent, db, cookie, hid, token, op, ret, out, nops>>

\* A clearing step that empties the store of every session of the table.
ClearDataEverySession(w) ==
    /\ pc[w] = "clear_data"
    /\ table' = [k \in DOMAIN table |-> [table[k] EXCEPT !.data = EmptyMap]]
    /\ mutex' = [mutex EXCEPT ![KeyOf(w)] = NoWorker]
    /\ Goto(w, "clear_store")
    /\ UNCHANGED <<readers, persistent, db, cookie, hid, token, op, ret, out, nops>>

\* instance.data.clear(); the mutex guard is dropped with the if-let block.
ClearData(w) ==
    /\ pc[w] = "clear_data"
    /\ table' = [table EXCEPT ![KeyOf(w)].data = EmptyMap]
    /\ mutex' = [mutex EXCEPT ![KeyOf(w)] = NoWorker]
    /\ Goto(w, "clear_store")
    /\ UNCHANGED <<readers, persistent, db, cookie, hid, token, op, ret, out, nops>>

\* Not persistent: clear_all returns, dropping the read guard.
ClearLocal(w) ==
    /\ pc[w] = "clear_store"
    /\ ~persistent
    /\ ReadUnlock(w)
    /\ Return(w, Unit)
    /\ UNCHANGED <<table, mutex, persistent, db, cookie, hid, token, nops>>

\* Persistent, and the backend clears its table: Ok(()).unwrap().
ClearStoreOk(w) ==
    /\ pc[w] = "clear_store"
    /\ persistent
    /\ db' = 0
    /\ ReadUnlock(w)
    /\ Return(w, Unit)
    /\ UNCHANGED <<table, mutex, persistent, cookie, hid, token, nops>>

\* Persistent, and the backend fails: Err(e).unwrap() panics; unwinding
\* drops the read guard and the worker's task ends.
ClearStoreErr(w) ==
    /\ pc[w] = "clear_store"
    /\ persistent
    /\ ReadUnlock(w)
    /\ ret' = [ret EXCEPT ![w] = Panic]
    /\ out' = [out EXCEPT ![w] = Panic]
    /\ Goto(w, "panicked")
    /\ UNCHANGED op
    /\ UNCHANGED <<table, mutex, persistent, db, cookie, hid, token, nops>>

\* ----------------------------------------------------- AxumSession::count
\* self.store.count().await is Ok(n).
CountBackendOk(w) ==
    /\ MayCall(w)
    /\ persistent
    /\ CallReturn(w, CountOp, I64(db))
    /\ UNCHANGED <<table, mutex, readers, persistent, db, cookie, hid, token>>

\* A failure that falls back to the size of the in-memory table.
CountBackendErrMemory(w) ==
    /\ MayCall(w)
    /\ persistent
    /\ CallReturn(w, CountOp, I64(Cardinality(DOMAIN table)))
    /\ UNCHANGED <<table, mutex, readers, persistent, db, cookie, hid, token>>

\* self.store.count().await is Err(_): unwrap_or(0).
CountBackendErr(w) ==
    /\ MayCall(w)
    /\ persistent
    /\ CallReturn(w, CountOp, I64(0))
    /\ UNCHANGED <<table, mutex, readers, persistent, db, cookie, hid, token>>

\* self.store.inner.read().await.len() as i64
CountMemory(w) ==
    /\ MayCall(w)
    /\ ~persistent
    /\ CallReturn(w, CountOp, I64(Cardinality(DOMAIN table)))
    /\ UNCHANGED <<table, mutex, readers, persistent, db, cookie, hid, token>>

\* ---------------------------------------------------------- specification
Next ==
    \/ \E w \in Workers, c \in Cookies : NewFromCookie(w, c)
    \/ \E w \in Workers, c \in Cookies : NewGenerate(w, c)
    \/ \E w \in Workers, t \in Uuids : Retry(w, t)
    \/ \E w \in Workers, t \in Uuids : Break(w, t)
    \/ \E w \in Workers : Materialize(w)
    \/ \E k \in TableKeys : Sweep(k)
    \/ \E w \in Workers, o \in TapOps : TapBegin(w, o)
    \/ \E w \in Workers, o \in TapOps : TapMissing(w, o)
    \/ \E w \in Workers : TapLock(w)
    \/ \E w \in Workers : TapBody(w)
    \/ \E w \in Workers : SetSame(w)
    \/ \E w \in Workers : SetChanged(w)
    \/ \E w \in Workers : SetWrite(w)
    \/ \E w \in Workers : ClearBegin(w)
    \/ \E w \in Workers : ClearMissing(w)
    \/ \E w \in Workers : ClearLock(w)
    \/ \E w \in Workers : ClearData(w)
    \/ \E w \in Workers : ClearLocal(w)
    \/ \E w \in Workers : ClearStoreOk(w)
    \/ \E w \in Workers : ClearStoreErr(w)
    \/ \E w \in Workers : CountBackendOk(w)
    \/ \E w \in Workers : CountBackendErr(w)
    \/ \E w \in Workers : CountMemory(w)

Spec == Init /\ [][Next]_vars


\* ------------------------------------------------------------- fairness
\* The steps of a worker inside a call: the two lock acquisitions, the
\* closure, clear_all's clearing and the backend's answer.
InCall(w) ==
    \/ TapLock(w) \/ TapBody(w) \/ SetSame(w) \/ SetChanged(w) \/ SetWrite(w)
    \/ ClearLock(w) \/ ClearData(w)
    \/ ClearLocal(w) \/ ClearStoreOk(w) \/ ClearStoreErr(w)

\* The generation draws a candidate that is free.
DrawsFree(w) == \E t \in Uuids : Break(w, t)

\* The executor runs every task that can run (tokio polls a woken task, and
\* its Mutex and RwLock queue their waiters), the backend answers, and the
\* random draws are fair: a loop that goes on draws a free candidate.
FairSpec ==
    /\ Spec
    /\ \A w \in Workers : WF_vars(InCall(w))
    /\ \A w \in Workers : WF_vars(DrawsFree(w))

\* ------------------------------------------------- notions the claims use
\* The table holds an entry for w's handle.
Resident(w) == hid[w] # NoId /\ contains_key(KeyOf(w))
\* w is inside a tap's closure, or inside clear_all's data.clear().
InBody(w) == pc[w] \in {"body", "write", "clear_data"}
\* w's last call, op[w], has returned ret[w].
Returned(w) == pc[w] = "ready" /\ nops[w] > 0
\* The step is a step of w's: no other worker moves.
OthersStill(w) == \A u \in Workers \ {w} :
                      pc'[u] = pc[u] /\ nops'[u] = nops[u] /\ hid'[u] = hid[u]
\* A value that serializes and reads back, at its own type, as itself.
RoundTrips(v) == ToJson(v).ok /\ FromJson(v.kind, ToJson(v).text) = v
\* new() took the generation path for w (its cookie was absent or no UUID).
Generated(w) == pc[w] = "created" /\ ParseStr(cookie[w]) = NoId

\* ------------------------------------------------------------------ C1
\* C1: two workers hold handles on one identifier whose entry is resident and
\* each one's last call is a set on the same key, with values v1 and v2, in
\* any interleaving.  Once both have returned, the store holds under that key
\* exactly the text of v1 or the text of v2 (never another text, never
\* nothing), and a get at the values' type returns v1 or v2 when both read
\* back as themselves.
C1_TapAtomicity ==
    \A w1 \in Workers : \A w2 \in Workers \ {w1} :
        ( /\ Returned(w1) /\ Returned(w2)
          /\ hid[w1] = hid[w2]
          /\ Resident(w1)
          /\ op[w1].name = "set" /\ op[w2].name = "set"
          /\ op[w1].key = op[w2].key
          /\ ret[w1] = I32(1) /\ ret[w2] = I32(1) )
        => LET sess == table[KeyOf(w1)]
               k == op[w1].key
               v1 == op[w1].val
               v2 == op[w2].val
           IN /\ k \in DOMAIN sess.data
              /\ sess.data[k] \in {Serialized(v1), Serialized(v2)}
              /\ (RoundTrips(v1) /\ RoundTrips(v2) /\ v1.kind = v2.kind)
                     => GetFunc(sess, k, v1.kind) \in {v1, v2}

\* Both sets have returned, with different values that read back.
C1_Witness ==
    \E w1 \in Workers : \E w2 \in Workers \ {w1} :
        /\ Returned(w1) /\ Returned(w2)
        /\ hid[w1] = hid[w2]
        /\ Resident(w1)
        /\ op[w1] = SetOp("k", I32(7)) /\ op[w2] = SetOp("k", I32(-12))
        /\ ret[w1] = I32(1) /\ ret[w2] = I32(1)
        /\ GetFunc(table[KeyOf(w1)], "k", "i32") = I32(-12)

\* ------------------------------------------------------------------ C2
\* C2: the identifiers of handles constructed concurrently on the generation
\* path (both constructed, neither yet entered in the table) are pairwise
\* distinct.
C2_Uniqueness ==
    \A w1 \in Workers : \A w2 \in Workers \ {w1} :
        (Generated(w1) /\ Generated(w2)) => hid[w1] # hid[w2]

C4_RoundTripAnyValue ==
    [][\A w \in Workers : \A v \in Values :
          ( /\ pc[w] = "body" /\ op[w].name = "get" /\ pc'[w] = "ready"
            /\ ToJson(v).ok
            /\ op[w].ty = v.kind
            /\ MapGet(table[KeyOf(w)].data, op[w].key) = Str(Serialized(v)) )
          => ret'[w] = v]_vars

\* C4 amended: the same for the values whose text reads back as themselves
\* (the integers; not a float that is not finite, which is written as null).
C4_RoundTrip ==
    [][\A w \in Workers : \A v \in Values :
          ( /\ pc[w] = "body" /\ op[w].name = "get" /\ pc'[w] = "ready"
            /\ ToJson(v).ok
            /\ v.kind = "i32"
            /\ op[w].ty = v.kind
            /\ MapGet(table[KeyOf(w)].data, op[w].key) = Str(Serialized(v)) )
          => ret'[w] = v]_vars

\* A get has returned the negative integer a set stored.
C4_Witness ==
    \E w \in Workers :
        /\ Returned(w)
        /\ op[w] = GetOp("k", "i32")
        /\ ret[w] = I32(-12)
        /\ MapGet(table[KeyOf(w)].data, "k") = Str(Serialized(I32(-12)))

\* ------------------------------------------------------------------ C5
\* C5: at most one worker is inside a tap closure or clear_all's clearing
\* step for one identifier, and it is the owner of that entry's mutex.
C5_MutualExclusion ==
    /\ [](\A k \in TableKeys :
             LET inside == {w \in Workers : InBody(w) /\ KeyOf(w) = k}
             IN /\ Cardinality(inside) <= 1
                /\ \A w \in inside : mutex[k] = w)
    /\ [][\A k \in (DOMAIN table) \cap (DOMAIN table') :
             table'[k] # table[k]
                 => /\ mutex[k] \in Workers
                    /\ InBody(mutex[k])
                    /\ KeyOf(mutex[k]) = k
                    /\ pc'[mutex[k]] # pc[mutex[k]]
                    /\ OthersStill(mutex[k])]_vars

\* One worker is inside the closure while the other waits for the same mutex.
C5_Witness ==
    \E w1 \in Workers : \E w2 \in Workers \ {w1} :
        /\ InBody(w1)
        /\ pc[w2] \in {"lock", "clear_lock"}
        /\ hid[w1] = hid[w2]

\* ------------------------------------------------------------------ C6
\* C6: a worker inside a tap's closure does not hold the table's structural
\* lock, so a structural insert or remove (a write section) can proceed while
\* the closure runs.
C6_LockIndependence ==
    \A w \in Workers :
        pc[w] \in {"body", "write"} => (w \notin readers /\ CanWrite)

\* ------------------------------------------------------------------ C7
\* C7: a step of the generation leaves the table as it is, and the identifier
\* it returns is not a key of the table at that step; while a worker
\* generates, no step of anyone adds or removes a key.
C7_Freshness ==
    [][\A w \in Workers :
          pc[w] = "generate"
              => /\ DOMAIN table' = DOMAIN table
                 /\ (pc'[w] # pc[w] \/ token'[w] # token[w])
                        => /\ table' = table
                           /\ mutex' = mutex
                           /\ pc'[w] \in {"generate", "created"}
                 /\ pc'[w] = "created"
                        => /\ hid'[w] \in Uuids
                           /\ to_string(hid'[w]) \notin DOMAIN table
                           /\ to_string(hid'[w]) \notin DOMAIN table']_vars

\* A generated identifier has been returned against a populated table.
C7_Witness ==
    \E w \in Workers :
        /\ Generated(w)
        /\ DOMAIN table # {}
        /\ ~contains_key(KeyOf(w))

\* ------------------------------------------------------------------ C8
\* C8: a tap operation called while the table holds no entry for the handle's
\* identifier returns None in that step, without taking a mutex or running
\* the closure (the worker is back in its handler, not a panic), and the
\* table, the mutexes and the read guards are the same after it.
C8_MissingEntry ==
    [][\A w \in Workers :
          ( /\ nops'[w] = nops[w] + 1
            /\ op'[w] \in TapOps
            /\ ~contains_key(KeyOf(w)) )
          => /\ ret'[w] = None
             /\ pc'[w] = "ready"
             /\ table' = table
             /\ mutex' = mutex
             /\ readers' = readers]_vars

\* A set has returned None on a handle whose entry is gone; nothing was made.
C8_Witness ==
    \E w \in Workers :
        /\ Returned(w)
        /\ op[w].name = "set"
        /\ ret[w] = None
        /\ table = EmptyMap

\* ------------------------------------------------------------------ C9
\* C9: a handle constructed from a cookie that parses as an identifier has
\* exactly that identifier, whatever the table holds, and construction took
\* no lock and drew no candidate; and when the only call of the run so far is
\* a get, on an identifier no call has used, it has returned None (no panic).
C9_UnknownCookie ==
    \A w \in Workers :
        /\ (pc[w] = "created" /\ ParseStr(cookie[w]) # NoId)
               => /\ hid[w] = ParseStr(cookie[w])
                  /\ w \notin readers
                  /\ token[w] = NoId
        /\ (Returned(w) /\ Calls = 1 /\ op[w].name = "get") => ret[w] = None

\* A handle constructed from a cookie in the simple form, on an identifier
\* the populated table does not know.
C9_Witness ==
    \E w \in Workers :
        /\ pc[w] = "created"
        /\ cookie[w].form = "simple"
        /\ hid[w] = cookie[w].id
        /\ DOMAIN table # {}
        /\ ~contains_key(KeyOf(w))

\* ----------------------------------------------------------------- C10
\* C10: the step of set's closure taken when the store already maps the key
\* to the serialized form of the value returns at once, and the table (every
\* entry's store and flags) is the same before and after it.
C10_NoOpWrite ==
    [][\A w \in Workers :
          ( /\ pc[w] = "body" /\ op[w].name = "set"
            /\ pc'[w] # pc[w]
            /\ MapGet(table[KeyOf(w)].data, op[w].key)
                   = Str(Serialized(op[w].val)) )
          => /\ pc'[w] = "ready"
             /\ ret'[w] = I32(1)
             /\ table' = table]_vars

\* Two handles on one identifier have each set the same value under the same
\* key, and these are the run's only calls: the later set wrote nothing.
C10_Witness ==
    \E w1 \in Workers : \E w2 \in Workers \ {w1} :
        /\ Returned(w1) /\ Returned(w2)
        /\ hid[w1] = hid[w2]
        /\ op[w1] = SetOp("k", I32(7)) /\ op[w2] = SetOp("k", I32(7))
        /\ ret[w1] = I32(1) /\ ret[w2] = I32(1)
        /\ Resident(w1)
        /\ MapGet(table[KeyOf(w1)].data, "k") = Str(Serialized(I32(7)))

\* A step of w's inside the call op[w], or the step that begins w's call.
StepOf(w) == pc'[w] # pc[w] \/ nops'[w] # nops[w]

\* ----------------------------------------------------------------- C11
\* C11: the closure step of destroy() on a resident entry sets the entry's
\* destroy flag and changes nothing else of the table (the entry is still
\* there, with the same store and the other flags), and returns; no step of a
\* destroy() call adds or removes a table key.
C11_DestroyFlag ==
    [][\A w \in Workers :
          /\ ( /\ pc[w] = "body" /\ op[w].name = "destroy" /\ pc'[w] # pc[w] )
                 => /\ table' = [table EXCEPT ![KeyOf(w)].destroy = TRUE]
                    /\ table'[KeyOf(w)].destroy
                    /\ table'[KeyOf(w)].data = table[KeyOf(w)].data
                    /\ pc'[w] = "ready"
                    /\ ret'[w] = I32(1)
          /\ (StepOf(w) /\ op'[w].name = "destroy")
                 => DOMAIN table' = DOMAIN table]_vars

\* destroy() has returned on an entry that holds data: flag set, data kept.
C11_Witness ==
    \E w \in Workers :
        /\ Returned(w)
        /\ op[w] = DestroyOp
        /\ ret[w] = I32(1)
        /\ Resident(w)
        /\ table[KeyOf(w)].destroy
        /\ "k" \in DOMAIN table[KeyOf(w)].data

\* ----------------------------------------------------------------- C12
\* C12: every step of a clear_all() call keeps the table's key set, every
\* other session's entry and the own entry's three flags; its clearing step
\* leaves the own store empty; and the call returns after the backend's table
\* was cleared when the store is persistent, and without touching the backend
\* when it is not (only a persistent store reaches the backend at all).
C12_ClearAllScope ==
    [][\A w \in Workers :
          (StepOf(w) /\ op'[w].name = "clear_all")
          => /\ DOMAIN table' = DOMAIN table
             /\ \A k \in DOMAIN table :
                    IF k = KeyOf(w)
                    THEN /\ table'[k].destroy = table[k].destroy
                         /\ table'[k].longterm = table[k].longterm
                         /\ table'[k].accepted = table[k].accepted
                         /\ table'[k].data \in {table[k].data, EmptyMap}
                    ELSE table'[k] = table[k]
             /\ pc[w] = "clear_data" => table'[KeyOf(w)].data = EmptyMap
             /\ pc[w] # "clear_data" => table' = table
             /\ pc[w] # "clear_store" => db' = db
             /\ (pc[w] = "clear_store" /\ ~persistent)
                    => (db' = db /\ pc'[w] = "ready" /\ ret'[w] = Unit)
             /\ (pc[w] = "clear_store" /\ pc'[w] = "ready" /\ persistent)
                    => db' = 0]_vars

\* clear_all() has returned on a persistent store whose backend held rows:
\* the store another handle of the session had written to is empty, the
\* backend is empty.
C12_Witness ==
    \E w \in Workers : \E w2 \in Workers \ {w} :
        /\ persistent /\ db = 0 /\ DbRows > 0
        /\ Returned(w) /\ op[w] = ClearAllOp /\ ret[w] = Unit
        /\ Returned(w2) /\ op[w2] = SetOp("k", I32(7)) /\ ret[w2] = I32(1)
        /\ hid[w] = hid[w2]
        /\ Resident(w)
        /\ table[KeyOf(w)].data = EmptyMap

\* ----------------------------------------------------------------- C13
\* C13: a clear_all() whose backend clear fails does not panic: no worker's
\* clear_all ends in a panic, whatever the backend answers.
C13_ClearAllNoPanic ==
    \A w \in Workers :
        op[w].name = "clear_all" => (pc[w] # "panicked" /\ ret[w] # Panic)

\* ----------------------------------------------------------------- C14
\* C14: a count() call returns in one step and changes nothing; without
\* persistence it returns the number of entries the table holds at that step;
\* with persistence it returns the backend's row count or, when the backend
\* fails, 0, whatever the table holds.
C14_CountModes ==
    [][\A w \in Workers :
          (nops'[w] = nops[w] + 1 /\ op'[w] = CountOp)
          => /\ pc'[w] = "ready"
             /\ table' = table /\ db' = db /\ mutex' = mutex /\ readers' = readers
             /\ IF persistent
                THEN ret'[w] \in {I64(db), I64(0)}
                ELSE ret'[w] = I64(Cardinality(DOMAIN table))]_vars

\* Without persistence, count() has returned 1 after two sessions were
\* inserted and one of them, destroyed, was swept.
C14_Witness ==
    \E w \in Workers : \E w2 \in Workers \ {w} :
        /\ ~persistent
        /\ Returned(w) /\ op[w] = CountOp /\ ret[w] = I64(1)
        /\ Returned(w2) /\ op[w2] = DestroyOp /\ ret[w2] = I32(1)
        /\ Resident(w) /\ ~Resident(w2)
        /\ Cardinality(DOMAIN table) = 1

\* ----------------------------------------------------------------- C15
\* A boolean handed back to a caller.
Bool(b) == [kind |-> "bool", val |-> b]

\* C15 as stated: the closure step of remove(key) deletes key from the
\* session's store and changes nothing else of the table, and the call hands
\* back to its caller whether the key was there.
C15_RemoveTellsCaller ==
    [][\A w \in Workers :
          (pc[w] = "body" /\ op[w].name = "remove" /\ pc'[w] # pc[w])
          => /\ table' = [table EXCEPT ![KeyOf(w)].data = MapRemove(@, op[w].key)]
             /\ pc'[w] = "ready"
             /\ out'[w] = Bool(op[w].key \in DOMAIN table[KeyOf(w)].data)]_vars

\* C15 amended: the closure step of remove(key) deletes key from the
\* session's store and changes nothing else of the table (every other key,
\* the flags, every other session), and the call hands back nothing: the
\* closure's result, the removed text when the key was there, stays in tap.
C15_Remove ==
    [][\A w \in Workers :
          (pc[w] = "body" /\ op[w].name = "remove" /\ pc'[w] # pc[w])
          => /\ table' = [table EXCEPT ![KeyOf(w)].data = MapRemove(@, op[w].key)]
             /\ op[w].key \notin DOMAIN table'[KeyOf(w)].data
             /\ \A k \in DOMAIN table[KeyOf(w)].data \ {op[w].key} :
                    /\ k \in DOMAIN table'[KeyOf(w)].data
                    /\ table'[KeyOf(w)].data[k] = table[KeyOf(w)].data[k]
             /\ pc'[w] = "ready"
             /\ ret'[w] = MapGet(table[KeyOf(w)].data, op[w].key)
             /\ out'[w] = Unit]_vars

\* remove("k") has returned after it deleted the text a set had stored.
C15_Witness ==
    \E w \in Workers :
        /\ Returned(w)
        /\ op[w] = RemoveOp("k")
        /\ ret[w] = Str(Serialized(I32(7)))
        /\ out[w] = Unit
        /\ Resident(w)
        /\ "k" \notin DOMAIN table[KeyOf(w)].data

\* ----------------------------------------------------------------- C16
\* C16: a worker in the generation loop holds the table's read guard and the
\* table's key set does not change while it is there; and, as some identifier
\* of the domain is not a key, under fair draws the loop returns.
C16_GenerationTerminates ==
    /\ [](\A w \in Workers : pc[w] = "generate" => w \in readers)
    /\ [][\A w \in Workers :
             pc[w] = "generate" => DOMAIN table' = DOMAIN table]_vars
    /\ \A w \in Workers :
           (pc[w] = "generate" /\ \E t \in Uuids : to_string(t) \notin DOMAIN table)
               ~> (pc[w] = "created" /\ w \notin readers)

\* The loop has rejected a candidate that is a key, and goes on.
C16_Witness ==
    \E w \in Workers :
        /\ pc[w] = "generate"
        /\ token[w] # NoId
        /\ to_string(token[w]) \in DOMAIN table
        /\ \E t \in Uuids : to_string(t) \notin DOMAIN table

\* ----------------------------------------------------------------- C17
\* C17: a set(key, value) whose value fails to serialize completes like any
\* other set (it hands back nothing, tap's closure returned Some(1)) and
\* leaves the empty string under key, whatever was there; and a get(key) that
\* finds the empty string under key returns None at every type.
C17_FailOpen ==
    [][\A w \in Workers :
          /\ ( /\ op[w].name = "set" /\ ~ToJson(op[w].val).ok
               /\ pc[w] \in {"body", "write"} /\ pc'[w] = "ready" )
                 => /\ ret'[w] = I32(1)
                    /\ out'[w] = Unit
                    /\ op[w].key \in DOMAIN table'[KeyOf(w)].data
                    /\ table'[KeyOf(w)].data[op[w].key] = <<>>
          /\ ( /\ op[w].name = "set" /\ ~ToJson(op[w].val).ok
               /\ pc[w] = "body" /\ pc'[w] # pc[w]
               /\ MapGet(table[KeyOf(w)].data, op[w].key) # Str(<<>>) )
                 => pc'[w] = "write"
          /\ ( /\ op[w].name = "get" /\ pc[w] = "body" /\ pc'[w] # pc[w]
               /\ MapGet(table[KeyOf(w)].data, op[w].key) = Str(<<>>) )
                 => /\ ret'[w] = None
                    /\ out'[w] = None
                    /\ table' = table]_vars

\* A get has returned None on the key under which a set of a value that does
\* not serialize left the empty string.
C17_Witness ==
    \E w \in Workers : \E w2 \in Workers \ {w} :
        /\ Returned(w) /\ op[w].name = "get" /\ op[w].key = "k"
        /\ ret[w] = None
        /\ Returned(w2) /\ op[w2] = SetOp("k", BadMap) /\ ret[w2] = I32(1)
        /\ hid[w] = hid[w2]
        /\ Resident(w)
        /\ MapGet(table[KeyOf(w)].data, "k") = Str(<<>>)

\* ----------------------------------------------------------------- C18
\* C18: the closure step of set_longterm(b) changes the table in the own
\* entry's longterm flag only, which becomes b, and that of set_accepted(b) in
\* the own entry's accepted flag only, which becomes b; no step of either
\* call adds or removes a table key.
C18_FlagSetters ==
    [][\A w \in Workers :
          /\ (pc[w] = "body" /\ op[w].name = "set_longterm" /\ pc'[w] # pc[w])
                 => /\ table' = [table EXCEPT ![KeyOf(w)].longterm = op[w].flag]
                    /\ table'[KeyOf(w)].longterm = op[w].flag
                    /\ pc'[w] = "ready" /\ ret'[w] = I32(1) /\ out'[w] = Unit
          /\ (pc[w] = "body" /\ op[w].name = "set_accepted" /\ pc'[w] # pc[w])
                 => /\ table' = [table EXCEPT ![KeyOf(w)].accepted = op[w].flag]
                    /\ table'[KeyOf(w)].accepted = op[w].flag
                    /\ pc'[w] = "ready" /\ ret'[w] = I32(1) /\ out'[w] = Unit
          /\ (StepOf(w) /\ op'[w].name \in {"set_longterm", "set_accepted"})
                 => /\ DOMAIN table' = DOMAIN table
                    /\ pc[w] # "body" => table' = table]_vars

\* Two handles of one session have set one flag each: both are set, the
\* destroy flag is not.
C18_Witness ==
    \E w \in Workers : \E w2 \in Workers \ {w} :
        /\ Returned(w) /\ op[w] = LongtermOp(TRUE) /\ ret[w] = I32(1)
        /\ Returned(w2) /\ op[w2] = AcceptedOp(TRUE) /\ ret[w2] = I32(1)
        /\ hid[w] = hid[w2]
        /\ Resident(w)
        /\ table[KeyOf(w)].longterm
        /\ table[KeyOf(w)].accepted
        /\ ~table[KeyOf(w)].destroy

\* ----------------------------------------------------------------- C19
\* The positions inside a call: waiting for the entry's mutex, inside the
\* closure or the clearing step, waiting for the backend.
CallPcs == {"lock", "body", "write", "clear_lock", "clear_data", "clear_store"}
\* The mutexes worker w owns.
Owned(w) == {k \in TableKeys : mutex[k] = w}

\* C19: a worker inside a call holds the table's read guard (a handle
\* operation takes no write section), owns at most one entry mutex, owns it
\* only between the acquisition and the end of the closure or clearing step,
\* and holds no guard outside a call; and under fair scheduling every call a
\* worker is inside ends (it returns, or clear_all's unwrap unwinds it) with
\* the worker holding no guard and no mutex.
C19_DeadlockFree ==
    /\ [](\A w \in Workers :
             /\ pc[w] \in CallPcs => w \in readers
             /\ Cardinality(Owned(w)) <= 1
             /\ Owned(w) # {} => (InBody(w) /\ Owned(w) = {KeyOf(w)})
             /\ pc[w] \in {"ready", "panicked", "created", "start"}
                    => (w \notin readers /\ Owned(w) = {}))
    /\ \A w \in Workers :
           (pc[w] \in CallPcs)
               ~> (pc[w] \in {"ready", "panicked"} /\ w \notin readers /\ Owned(w) = {})

\* Two handles of one session have each finished a call, a clear_all and a
\* destroy, that needed the same mutex; no guard and no mutex is held.
C19_Witness ==
    \E w \in Workers : \E w2 \in Workers \ {w} :
        /\ Returned(w) /\ op[w] = ClearAllOp
        /\ Returned(w2) /\ op[w2] = DestroyOp /\ ret[w2] = I32(1)
        /\ hid[w] = hid[w2]
        /\ Resident(w)
        /\ readers = {}
        /\ \A k \in TableKeys : mutex[k] = NoWorker

\* ----------------------------------------------------------------- C20
\* C20: clear_all() reaches the backend only after its clearing step emptied
\* the own store, or after it found no entry; the clearing step itself does
\* not touch the backend; the backend's answer, failure included, leaves the
\* table as it is (nothing is restored); and a clear_all() that finds no
\* entry goes on to the backend, which a persistent store then asks to clear.
C20_ClearAllOrdering ==
    [][\A w \in Workers :
          /\ (pc[w] # "clear_store" /\ pc'[w] = "clear_store")
                 => \/ /\ pc[w] = "clear_data"
                       /\ table'[KeyOf(w)].data = EmptyMap
                       /\ db' = db
                    \/ /\ pc[w] = "ready"
                       /\ ~contains_key(KeyOf(w))
                       /\ table' = table /\ db' = db
          /\ (pc[w] = "clear_store" /\ pc'[w] # pc[w])
                 => /\ table' = table
                    /\ pc'[w] = "panicked" => (persistent /\ db' = db)
                    /\ (pc'[w] = "ready" /\ persistent) => db' = 0
          /\ (nops'[w] = nops[w] + 1 /\ op'[w] = ClearAllOp)
                 => pc'[w] = IF contains_key(KeyOf(w)) THEN "clear_lock"
                             ELSE "clear_store"
          /\ db' # db => \E u \in Workers : pc[u] = "clear_store" /\ pc'[u] = "ready"]_vars

\* The backend's clear has failed: the store another handle had written to is
\* empty and stays so, the backend still holds its rows.
C20_Witness ==
    \E w \in Workers : \E w2 \in Workers \ {w} :
        /\ persistent /\ db = DbRows /\ DbRows > 0
        /\ pc[w] = "panicked" /\ op[w] = ClearAllOp
        /\ Returned(w2) /\ op[w2] = SetOp("k", I32(7)) /\ ret[w2] = I32(1)
        /\ hid[w] = hid[w2]
        /\ Resident(w)
        /\ table[KeyOf(w)].data = EmptyMap

====
